---- MODULE Spec2Model ----
(***************************************************************************)
(* One run of dab_inductor_sizing_phaseShift (DAB_inductor_selection.py):  *)
(* the ZVS estimate of the lower inductance bound, the resolution search   *)
(* loop, the closed-form upper bound and the feasibility check, the two    *)
(* ploss_vs_resolution sweeps, the inductance selection, the full-power    *)
(* design point, the ploss_vs_P sweep and the returned dictionary.         *)
(*                                                                         *)
(* Python floats are modelled as decimal floating-point numbers <<m, e>>   *)
(* (value m * 10^e) with an 8-digit mantissa, 10^7 <= |m| < 10^8, every    *)
(* operation rounded to nearest, ties to even, as IEEE arithmetic rounds   *)
(* every operation to 53 bits.  Expressions keep the source's order of     *)
(* operations.                                                             *)
(***************************************************************************)
EXTENDS Integers, Sequences, FiniteSets, TLC

VARIABLES
  P, V1, V2, fsw, f_clk, Llk, n, resolution_percentage,  \* the arguments
  pc,                     \* position in dab_inductor_sizing_phaseShift
  Ts, P_min, max_allowed_deltaP, phase_shift_min,
  Lmin, phi, max_deltaP, resolution_limited, limiter,
  Lmax, min_deltaP,
  Ltot_in,                \* how Ltot is supplied: the argument, or what input() does
  Ltot, prompted,         \* the selected inductance; whether input() was called
  resolution, P_max_inductanceChoice,
  I_pri_RMS, I_sec_RMS, total_Pcond, nu,
  out,                    \* warnings issued: warnings.warn and the WARNING print
  calls,                  \* the sweep functions invoked so far, in order
  sw,                     \* the frame of the sweep function being executed
  ret                     \* the returned dictionary

vars == <<P, V1, V2, fsw, f_clk, Llk, n, resolution_percentage, pc,
          Ts, P_min, max_allowed_deltaP, phase_shift_min,
          Lmin, phi, max_deltaP, resolution_limited, limiter, Lmax, min_deltaP,
          Ltot_in, Ltot, prompted, resolution, P_max_inductanceChoice,
          I_pri_RMS, I_sec_RMS, total_Pcond, nu, out, calls, sw, ret>>

----------------------------------------------------------------------------
(* Floating-point arithmetic *)

E4 == 10^4
E7 == 10^7
E8 == 10^8
P10(k) == 10^k

Zero == <<0, 0>>
NaN == <<0, 1>>
IsNaN(x) == x[1] = 0 /\ x[2] = 1

AbsI(i) == IF i < 0 THEN 0 - i ELSE i
SgnI(i) == IF i < 0 THEN 0 - 1 ELSE 1

\* a mantissa below 10^7 is scaled up (exactly)
RECURSIVE NormUp(_, _)
NormUp(a, e) == IF a >= E7 THEN <<a, e>> ELSE NormUp(a * 10, e - 1)

\* a mantissa rounded up to 10^8 carries into the exponent
Carry(q, e) == IF q = E8 THEN <<E7, e + 1>> ELSE <<q, e>>

\* q + r/u with 0 <= r < u, rounded to nearest, ties to even
RoundQ(q, r, u, e) ==
  Carry(IF (2 * r > u) \/ (2 * r = u /\ q % 2 = 1) THEN q + 1 ELSE q, e)

NormAbs(a, e) ==
  IF a = 0 THEN Zero
  ELSE IF a < E7 THEN NormUp(a, e)
  ELSE IF a < E8 THEN <<a, e>>
  ELSE IF a < 10 * E8 THEN RoundQ(a \div 10, a % 10, 10, e + 1)
  ELSE RoundQ(a \div 100, a % 100, 100, e + 2)

Signed(s, x) == IF s < 0 THEN <<0 - x[1], x[2]>> ELSE x

\* the float nearest to m * 10^e, |m| < 2^31
Norm(m, e) == Signed(m, NormAbs(AbsI(m), e))

FNeg(x) == IF IsNaN(x) THEN x ELSE <<0 - x[1], x[2]>>
FAbs(x) == <<AbsI(x[1]), x[2]>>

\* x * y: the 16-digit product Q * 10^8 + R from 4-digit halves, then rounded
MulRound(Q, R, e, s) ==
  Signed(s, IF Q >= E7 THEN RoundQ(Q, R, E8, e + 8)
            ELSE RoundQ(Q * 10 + R \div E7, R % E7, E7, e + 7))
MulLow(hi, low, e, s) == MulRound(hi + low \div E8, low % E8, e, s)
MulMid(hi, mid, lo, e, s) == MulLow(hi + mid \div E4, (mid % E4) * E4 + lo, e, s)
MulHalves(ah, al, bh, bl, e, s) == MulMid(ah * bh, ah * bl + al * bh, al * bl, e, s)
MulAbs(a, b, e, s) == MulHalves(a \div E4, a % E4, b \div E4, b % E4, e, s)
FMul(x, y) ==
  IF IsNaN(x) \/ IsNaN(y) THEN NaN
  ELSE IF x[1] = 0 \/ y[1] = 0 THEN Zero
  ELSE MulAbs(AbsI(x[1]), AbsI(y[1]), x[2] + y[2], SgnI(x[1]) * SgnI(y[1]))

\* k digits of r / b by long division: <<quotient, remainder>>
RECURSIVE DivLoop(_, _, _, _)
DivLoop(r, b, q, k) ==
  IF k = 1 THEN <<q * 10 + r \div b, r % b>>
  ELSE DivLoop((r % b) * 10, b, q * 10 + r \div b, k - 1)

DivRound(qr, b, e, s) == Signed(s, RoundQ(qr[1], qr[2], b, e))
DivAbs(a, b, e, s) ==
  IF a >= b THEN DivRound(DivLoop(a, b, 0, 8), b, e - 7, s)
  ELSE DivRound(DivLoop(a * 10, b, 0, 8), b, e - 8, s)
\* x / y; a zero divisor gives nan
FDiv(x, y) ==
  IF IsNaN(x) \/ IsNaN(y) \/ y[1] = 0 THEN NaN
  ELSE IF x[1] = 0 THEN Zero
  ELSE DivAbs(AbsI(x[1]), AbsI(y[1]), x[2] - y[2], SgnI(x[1]) * SgnI(y[1]))

\* a + b/p and a - b/p for mantissas a, b whose exponents are d >= 2 apart
AddCarry(q, r, br, e) ==
  IF r > 5 \/ (r = 5 /\ (br > 0 \/ q % 2 = 1)) THEN <<q + 1, e + 1>> ELSE <<q, e + 1>>
AddParts(I, br, p, e) ==
  IF I < E8 THEN RoundQ(I, br, p, e) ELSE AddCarry(I \div 10, I % 10, br, e)
AddFar(a, b, p, e) == AddParts(a + b \div p, b % p, p, e)
SubParts(I, f, p, e) ==
  IF I >= E7 THEN RoundQ(I, f, p, e)
  ELSE RoundQ(I * 10 + f \div (p \div 10), f % (p \div 10), p \div 10, e - 1)
SubSplit(a, bq, br, p, e) ==
  IF br > 0 THEN SubParts(a - bq - 1, p - br, p, e) ELSE SubParts(a - bq, 0, p, e)
SubFar(a, b, p, e) == SubSplit(a, b \div p, b % p, p, e)

\* big + sml, big the operand with the larger exponent, d the difference
AddOrdered(big, sml, d) ==
  IF d <= 1 THEN Norm(big[1] * P10(d) + sml[1], sml[2])
  ELSE IF d > 9 THEN big
  ELSE IF (big[1] < 0) = (sml[1] < 0)
       THEN Signed(big[1], AddFar(AbsI(big[1]), AbsI(sml[1]), P10(d), big[2]))
       ELSE Signed(big[1], SubFar(AbsI(big[1]), AbsI(sml[1]), P10(d), big[2]))
FAdd(x, y) ==
  IF IsNaN(x) \/ IsNaN(y) THEN NaN
  ELSE IF x[1] = 0 THEN y
  ELSE IF y[1] = 0 THEN x
  ELSE IF x[2] >= y[2] THEN AddOrdered(x, y, x[2] - y[2])
  ELSE AddOrdered(y, x, y[2] - x[2])

FSub(x, y) == FAdd(x, FNeg(y))

FLt(x, y) ==
  IF IsNaN(x) \/ IsNaN(y) THEN FALSE
  ELSE IF x[1] < 0 /\ y[1] >= 0 THEN TRUE
  ELSE IF x[1] >= 0 /\ y[1] <= 0 THEN FALSE
  ELSE IF x[1] = 0 THEN TRUE
  ELSE IF x[1] > 0 THEN x[2] < y[2] \/ (x[2] = y[2] /\ x[1] < y[1])
  ELSE x[2] > y[2] \/ (x[2] = y[2] /\ x[1] < y[1])
FLe(x, y) == IF IsNaN(x) \/ IsNaN(y) THEN FALSE ELSE x = y \/ FLt(x, y)

\* integer square root by Newton's iteration from above
RECURSIVE ISqrtLoop(_, _)
ISqrtNext(v, g, h) == IF h >= g THEN g ELSE ISqrtLoop(v, h)
ISqrtLoop(v, g) == ISqrtNext(v, g, (g + v \div g) \div 2)

\* s * s as <<Q, R>>, s * s = Q * 10^8 + R
SqLow(hh, low) == <<hh + low \div E8, low % E8>>
SqMid(hh, mid, ll) == SqLow(hh + mid \div E4, (mid % E4) * E4 + ll)
SqHalves(sh, sl) == SqMid(sh * sh, 2 * sh * sl, sl * sl)
Sq(s) == SqHalves(s \div E4, s % E4)
LeW(a, b) == a[1] < b[1] \/ (a[1] = b[1] /\ a[2] <= b[2])

RECURSIVE SqrtDown(_, _)
SqrtDown(s, N) == IF LeW(Sq(s), N) THEN s ELSE SqrtDown(s - 1, N)
RECURSIVE SqrtUp(_, _)
SqrtUp(s, N) == IF LeW(Sq(s + 1), N) THEN SqrtUp(s + 1, N) ELSE s

\* sqrt of the 16-digit N: a Newton step on the estimate g, N / g by long division
\* of the mantissa m (sh = 1 when N = m * 10^7, 0 when N = m * 10^8)
SqrtQuot(m, g, sh) ==
  IF m >= g THEN (DivLoop(m, g, 0, 8)[1] * 10) \div P10(sh)
  ELSE DivLoop(m * 10, g, 0, 8)[1] \div P10(sh)
SqrtNewton(m, g, sh) == (g + SqrtQuot(m, g, sh)) \div 2
\* floor(sqrt(N)) = fl rounded to nearest: up iff N > fl^2 + fl
SqrtHalf(sq, lo) == <<sq[1] + lo \div E8, lo % E8>>
SqrtRound(fl, sq, N, h) ==
  Carry(IF LeW(N, SqrtHalf(sq, sq[2] + fl)) THEN fl ELSE fl + 1, h)
SqrtFloor(fl, N, h) == SqrtRound(fl, Sq(fl), N, h)
SqrtFrom(m, g, sh, N, h) ==
  SqrtFloor(SqrtUp(SqrtDown(SqrtNewton(m, SqrtNewton(m, g, sh), sh), N), N), N, h)
\* sqrt(x) of a negative x is nan, as np.sqrt gives
FSqrt(x) ==
  IF IsNaN(x) \/ x[1] < 0 THEN NaN
  ELSE IF x[1] = 0 THEN Zero
  ELSE IF x[2] % 2 = 1
       THEN SqrtFrom(x[1], ISqrtLoop(x[1] * 10, 31623) * 1000, 1,
                     <<x[1] \div 10, (x[1] % 10) * E7>>, (x[2] - 1) \div 2 - 3)
       ELSE SqrtFrom(x[1], ISqrtLoop(x[1], 10000) * E4, 0, <<x[1], 0>>, x[2] \div 2 - 4)

\* a decimal literal m * 10^e, and int -> float conversion
Dec(m, e) == Norm(m, e)
FromInt(i) == Norm(i, 0)

\* int(x): truncation toward zero
ToInt(x) ==
  IF x[2] >= 0 THEN x[1] * P10(x[2])
  ELSE IF x[2] < 0 - 8 THEN 0
  ELSE SgnI(x[1]) * (AbsI(x[1]) \div P10(0 - x[2]))

FMin(x, y) == IF FLt(y, x) THEN y ELSE x

One == FromInt(1)
Two == FromInt(2)
Three == FromInt(3)
Four == FromInt(4)

----------------------------------------------------------------------------
(* Module-level constants and the pure computations *)

Coss_pri == FDiv(Dec(92, -12), FromInt(10000))
Ron_pri == Dec(80, -3)
Ron_sec == Dec(21, -3)

\* the coefficient without the division by n
QuadC_without_n(P_, fsw_, L_, n_, V1_, V2_) ==
  FDiv(FDiv(FMul(FMul(FNeg(P_), fsw_), L_), V1_), V2_)

\* c = -P * fsw * L / n / V1 / V2
QuadC(P_, fsw_, L_, n_, V1_, V2_) ==
  FDiv(FDiv(FDiv(FMul(FMul(FNeg(P_), fsw_), L_), n_), V1_), V2_)

\* b^2 - 4ac of the quadratic a*x^2 + b*x + c
Disc(a_, b_, c_) == FSub(FMul(b_, b_), FMul(FMul(Four, a_), c_))

\* np.real(np.roots([a, b, c])): the real parts of the two roots.  A negative
\* discriminant gives a conjugate pair, both with real part -b/(2a).
stable_q(b_, s_) == FNeg(FDiv(IF b_[1] < 0 THEN FSub(b_, s_) ELSE FAdd(b_, s_), Two))
root_pair(a_, c_, q_) == <<FDiv(q_, a_), FDiv(c_, q_)>>
conj_pair(r_) == <<r_, r_>>
roots_by_disc(a_, b_, c_, d_) ==
  IF FLt(d_, Zero) THEN conj_pair(FDiv(FNeg(b_), FMul(Two, a_)))
  ELSE root_pair(a_, c_, stable_q(b_, FSqrt(d_)))
np_roots_real(a_, b_, c_) == roots_by_disc(a_, b_, c_, Disc(a_, b_, c_))

\* the larger root
max_real(r_) == IF FLt(r_[1], r_[2]) THEN r_[2] ELSE r_[1]

\* min(np.real(roots))
min_real(r_) == FMin(r_[1], r_[2])

\* a = -2; b = 1; c = ...; roots = np.roots([a, b, c]); phi = min(np.real(roots))
solve_phi(P_, fsw_, L_, n_, V1_, V2_) ==
  min_real(np_roots_real(FromInt(-2), One, QuadC(P_, fsw_, L_, n_, V1_, V2_)))

\* the power equation with L multiplied in instead of divided out
power_eq_times_L(phi_, L_, n_, V1_, V2_, fsw_) ==
  FMul(FDiv(FMul(FMul(FMul(FMul(n_, V1_), V2_), phi_),
                 FSub(One, FMul(Two, phi_))), fsw_), L_)

\* n * V1 * V2 * phi * (1 - 2*phi) / fsw / L
power_eq(phi_, L_, n_, V1_, V2_, fsw_) ==
  FDiv(FDiv(FMul(FMul(FMul(FMul(n_, V1_), V2_), phi_),
                 FSub(One, FMul(Two, phi_))), fsw_), L_)

\* the power step between phi and phi - phase_shift_min
resolution_step(phi_, psm_, L_, n_, V1_, V2_, fsw_) ==
  FSub(power_eq(phi_, L_, n_, V1_, V2_, fsw_),
       power_eq(FSub(phi_, psm_), L_, n_, V1_, V2_, fsw_))

D1 == Dec(5, -1)
D2 == Dec(5, -1)

eRMS(phi_) ==
  FMul(FSub(One, FMul(Four, FAbs(phi_))),
       FSub(FAdd(FSub(One, FMul(Two, FAbs(phi_))), FMul(Four, FMul(phi_, phi_))),
            FMul(Three, FAdd(FMul(D1, FSub(One, D1)), FMul(D2, FSub(One, D2))))))

\* the quantity under the square root
Irms_radicand(phi_, V1_, V2_, n_) ==
  FAdd(FAdd(FMul(FMul(FMul(D1, D1), FMul(V1_, V1_)),
                 FSub(One, FMul(FDiv(Four, Three), D1))),
            FMul(FMul(FMul(FMul(D2, D2), FMul(n_, n_)), FMul(V2_, V2_)),
                 FSub(One, FMul(FDiv(Four, Three), D2)))),
       FMul(FDiv(FMul(FMul(n_, V1_), V2_), Three), eRMS(phi_)))

Irms_prim_phaseShift(phi_, V1_, V2_, n_, fsw_, L_) ==
  FMul(FDiv(One, FMul(FMul(Two, fsw_), L_)), FSqrt(Irms_radicand(phi_, V1_, V2_, n_)))

\* the primary current divided by the turns ratio
sec_RMS_divided(I_pri_, n_) == FDiv(I_pri_, n_)

\* I_sec_RMS = I_pri_RMS * n
sec_RMS(I_pri_, n_) == FMul(I_pri_, n_)

\* pri_Pcond + sec_Pcond, each 2 * Ron * I^2
Pcond_total(I_pri_, I_sec_) ==
  FAdd(FMul(FMul(Two, Ron_pri), FMul(I_pri_, I_pri_)),
       FMul(FMul(Two, Ron_sec), FMul(I_sec_, I_sec_)))

\* x**2
Square(x_) == FMul(x_, x_)

\* the ZVS bound without the factor Coss_pri
Lmin_ZVS_without_Coss(P_min_, V1_, V2_, n_, Ts_) ==
  FMul(FDiv(FMul(FMul(Two, Ts_), V1_),
            FAdd(FMul(FMul(FDiv(One, n_), FDiv(P_min_, V2_)), Ts_),
                 FMul(FMul(FromInt(8), Coss_pri), V1_))),
       FDiv(FMul(FMul(Two, Ts_), V1_),
            FAdd(FMul(FMul(FDiv(One, n_), FDiv(P_min_, V2_)), Ts_),
                 FMul(FMul(FromInt(8), Coss_pri), V1_))))

\* Lmin = Coss_pri * (2*Ts*V1 / ((1/n)*Iout_min*Ts + 8*Coss_pri*V1))**2
Lmin_ZVS(P_min_, V1_, V2_, n_, Ts_) ==
  FMul(Coss_pri,
       Square(FDiv(FMul(FMul(Two, Ts_), V1_),
                   FAdd(FMul(FMul(FDiv(One, n_), FDiv(P_min_, V2_)), Ts_),
                        FMul(FMul(FromInt(8), Coss_pri), V1_)))))

\* Lmax = (n * V1 * V2 * 0.25 * (1 - 2*phi_max)) / (P * fsw)
phi_max == Dec(25, -2)
\* the upper bound without the factor (1 - 2*phi_max)
Lmax_without_factor(P_, V1_, V2_, n_, fsw_) ==
  FDiv(FMul(FMul(FMul(n_, V1_), V2_), Dec(25, -2)), FMul(P_, fsw_))

Lmax_power(P_, V1_, V2_, n_, fsw_) ==
  FDiv(FMul(FMul(FMul(FMul(n_, V1_), V2_), Dec(25, -2)), FSub(One, FMul(Two, phi_max))),
       FMul(P_, fsw_))

\* a step of 1.001 instead of 1.0001
search_step_coarse(L_) == FMul(L_, Dec(1001, -3))

\* a loop whose body never runs
loop_skipped(max_deltaP_, max_allowed_deltaP_) == FALSE

\* while max_deltaP > max_allowed_deltaP
loop_condition(max_deltaP_, max_allowed_deltaP_) ==
  FLt(max_allowed_deltaP_, max_deltaP_)

\* the loop's step: Lmin = Lmin * 1.0001
search_step(L_) == FMul(L_, Dec(10001, -4))

\* a power sweep that is not guarded by the feasibility of the bounds
always_sweep(Lmin_, Lmax_) == TRUE

\* if Lmax < Lmin (the feasibility check) and if Lmax >= Lmin (the ploss_vs_P guard)
infeasible(Lmin_, Lmax_) == FLt(Lmax_, Lmin_)
power_sweep_guard(Lmin_, Lmax_) == FLe(Lmin_, Lmax_)

----------------------------------------------------------------------------
(* The arguments of the runs that are explored *)

None == <<"None">>
Unset == <<>>

\* Calls of dab_inductor_sizing_phaseShift: an argument that is not passed is None.
ScenarioList ==
  << [P |-> FromInt(10), V1 |-> FromInt(48), V2 |-> FromInt(12), fsw |-> Dec(1, 6),
      f_clk |-> None, Llk |-> None, n |-> FromInt(3), rp |-> FromInt(157)],
     [P |-> Dec(2, -2), V1 |-> None, V2 |-> None, fsw |-> None,
      f_clk |-> None, Llk |-> None, n |-> None, rp |-> None],
     [P |-> FromInt(7), V1 |-> FromInt(48), V2 |-> FromInt(12), fsw |-> Dec(3, 6),
      f_clk |-> Dec(1, 9), Llk |-> Dec(1, -6), n |-> FromInt(3), rp |-> FromInt(200)],
     [P |-> FromInt(10), V1 |-> FromInt(48), V2 |-> FromInt(12), fsw |-> Dec(1, 6),
      f_clk |-> None, Llk |-> None, n |-> FromInt(3), rp |-> FromInt(200)],
     [P |-> Dec(108, -4), V1 |-> None, V2 |-> None, fsw |-> None,
      f_clk |-> Dec(1, 6), Llk |-> None, n |-> None, rp |-> Dec(795, -4)],
     [P |-> FromInt(12), V1 |-> FromInt(36), V2 |-> FromInt(12), fsw |-> Dec(1, 6),
      f_clk |-> None, Llk |-> None, n |-> FromInt(3), rp |-> FromInt(250)] >>

\* The inductances a caller passes as Ltot or a user types at the prompt [H].
LtotList == << Dec(1, -5), Dec(1, -9), Dec(2, -4), Dec(1, -3), Dec(5, -6) >>

NScen == 5
NLtot == 3

MinI(i, j) == IF i < j THEN i ELSE j
Scenarios == {ScenarioList[i] : i \in 1..MinI(NScen, Len(ScenarioList))}
LtotValues == {LtotList[i] : i \in 1..MinI(NLtot, Len(LtotList))}

\* How the inductance is supplied: the Ltot argument, or (argument None) what
\* input() does: a line that parses as a float, a line that does not, EOF/interrupt.
Selections ==
  {<<"arg", v>> : v \in LtotValues} \cup {<<"typed", v>> : v \in LtotValues}
    \cup {<<"invalid", Zero>>, <<"eof", Zero>>}

NoSweep ==
  [fn |-> "none", power |-> Unset, x |-> Unset, count |-> 0, L |-> Unset, phi |-> Unset,
   resolution |-> Unset, I_pri_RMS |-> Unset, I_sec_RMS |-> Unset, Pcond |-> Unset,
   eff |-> Unset]

----------------------------------------------------------------------------
(* The state machine *)

InitCall(s) ==
  /\ P = s.P /\ V1 = s.V1 /\ V2 = s.V2 /\ fsw = s.fsw /\ f_clk = s.f_clk
  /\ Llk = s.Llk /\ n = s.n /\ resolution_percentage = s.rp
  /\ pc = "start"
  /\ Ts = Unset /\ P_min = Unset /\ max_allowed_deltaP = Unset /\ phase_shift_min = Unset
  /\ Lmin = Unset /\ phi = Unset /\ max_deltaP = Unset
  /\ resolution_limited = FALSE /\ limiter = "unset"
  /\ Lmax = Unset /\ min_deltaP = Unset
  /\ Ltot_in = Unset /\ Ltot = Unset /\ prompted = FALSE
  /\ resolution = Unset /\ P_max_inductanceChoice = Unset
  /\ I_pri_RMS = Unset /\ I_sec_RMS = Unset /\ total_Pcond = Unset /\ nu = Unset
  /\ out = {} /\ calls = <<>> /\ sw = NoSweep /\ ret = Unset

Init == \E s \in Scenarios : InitCall(s)

\* main(): dab_inductor_sizing_phaseShift() with every argument left out
DefaultCall ==
  [P |-> None, V1 |-> None, V2 |-> None, fsw |-> None, f_clk |-> None, Llk |-> None,
   n |-> None, rp |-> None]

InitDefault == InitCall(DefaultCall)

OrDefault(x, d) == IF x = None THEN d ELSE x

\* lines 236-260: defaults, Ts, P_min, max_allowed_deltaP
apply_defaults ==
  /\ pc = "start"
  /\ P' = OrDefault(P, Dec(1, 3))
  /\ V1' = OrDefault(V1, FromInt(720))
  /\ V2' = OrDefault(V2, FromInt(40))
  /\ fsw' = OrDefault(fsw, Dec(100, 3))
  /\ f_clk' = OrDefault(f_clk, Dec(250, 6))
  /\ Llk' = OrDefault(Llk, Dec(10, -6))
  /\ n' = OrDefault(n, FromInt(15))
  /\ resolution_percentage' = OrDefault(resolution_percentage, Dec(25, -3))
  /\ Ts' = FDiv(One, fsw')
  /\ P_min' = FMul(Dec(5, -1), P')
  /\ max_allowed_deltaP' = FMul(resolution_percentage', P')
  /\ pc' = "zvs"
  /\ UNCHANGED <<phase_shift_min, Lmin, phi, max_deltaP, resolution_limited, limiter,
                 Lmax, min_deltaP, Ltot_in, Ltot, prompted, resolution, P_max_inductanceChoice,
                 I_pri_RMS, I_sec_RMS, total_Pcond, nu, out, calls, sw, ret>>

\* lines 262-283: the ZVS estimate of Lmin and its resolution step
zvs_bound ==
  /\ pc = "zvs"
  /\ Lmin' = Lmin_ZVS(P_min, V1, V2, n, Ts)
  /\ phase_shift_min' = FDiv(FDiv(One, f_clk), Ts)
  /\ phi' = solve_phi(P_min, fsw, Lmin', n, V1, V2)
  /\ max_deltaP' = resolution_step(phi', phase_shift_min', Lmin', n, V1, V2, fsw)
  /\ resolution_limited' = FALSE
  /\ pc' = "search"
  /\ UNCHANGED <<P, V1, V2, fsw, f_clk, Llk, n, resolution_percentage,
                 Ts, P_min, max_allowed_deltaP, limiter,
                 Lmax, min_deltaP, Ltot_in, Ltot, prompted, resolution, P_max_inductanceChoice,
                 I_pri_RMS, I_sec_RMS, total_Pcond, nu, out, calls, sw, ret>>

\* lines 286-295: one iteration of while max_deltaP > max_allowed_deltaP
search_iteration ==
  /\ pc = "search"
  /\ loop_condition(max_deltaP, max_allowed_deltaP)
  /\ resolution_limited' = TRUE
  /\ Lmin' = search_step(Lmin)
  /\ phi' = solve_phi(P_min, fsw, Lmin', n, V1, V2)
  /\ max_deltaP' = resolution_step(phi', phase_shift_min, Lmin', n, V1, V2, fsw)
  /\ UNCHANGED <<P, V1, V2, fsw, f_clk, Llk, n, resolution_percentage, pc,
                 Ts, P_min, max_allowed_deltaP, phase_shift_min, limiter,
                 Lmax, min_deltaP, Ltot_in, Ltot, prompted, resolution, P_max_inductanceChoice,
                 I_pri_RMS, I_sec_RMS, total_Pcond, nu, out, calls, sw, ret>>

\* the frame of ploss_vs_resolution(power, Lmin, Lmax, ...) at its first line
ResolutionSweep(power_) == [NoSweep EXCEPT !.fn = "ploss_vs_resolution",
                                           !.power = power_, !.x = Lmin]

\* lines 297-331: the limiter, Lmax, the feasibility check; when feasible the
\* first ploss_vs_resolution call is entered
upper_bound ==
  /\ pc = "search"
  /\ ~loop_condition(max_deltaP, max_allowed_deltaP)
  /\ limiter' = IF resolution_limited THEN "resolution requirement"
                ELSE "ZVS condition at minimum power"
  /\ Lmax' = Lmax_power(P, V1, V2, n, fsw)
  /\ min_deltaP' = resolution_step(phi_max, phase_shift_min, Lmax', n, V1, V2, fsw)
  /\ IF infeasible(Lmin, Lmax')
     THEN /\ out' = out \cup {"UserWarning"}
          /\ pc' = "select"
          /\ UNCHANGED <<calls, sw>>
     ELSE /\ calls' = Append(calls, <<"ploss_vs_resolution", P>>)
          /\ sw' = ResolutionSweep(P)
          /\ pc' = "sweep_L"
          /\ UNCHANGED out
  /\ UNCHANGED <<P, V1, V2, fsw, f_clk, Llk, n, resolution_percentage,
                 Ts, P_min, max_allowed_deltaP, phase_shift_min,
                 Lmin, phi, max_deltaP, resolution_limited,
                 Ltot_in, Ltot, prompted, resolution, P_max_inductanceChoice,
                 I_pri_RMS, I_sec_RMS, total_Pcond, nu, ret>>

\* ploss_vs_resolution lines 80-103: one iteration of while L <= Lmax
ploss_vs_resolution_sample ==
  /\ pc = "sweep_L"
  /\ FLe(sw.x, Lmax)
  /\ LET L == sw.x
         ph == solve_phi(sw.power, fsw, L, n, V1, V2)
         Ip == Irms_prim_phaseShift(ph, V1, V2, n, fsw, L)
         Is == sec_RMS(Ip, n)
     IN sw' = [sw EXCEPT !.L = L, !.phi = ph,
                         !.resolution = resolution_step(ph, phase_shift_min, L, n, V1, V2, fsw),
                         !.I_pri_RMS = Ip, !.I_sec_RMS = Is,
                         !.Pcond = Pcond_total(Ip, Is),
                         !.count = sw.count + 1,
                         !.x = FAdd(L, Dec(1, -6))]
  /\ UNCHANGED <<P, V1, V2, fsw, f_clk, Llk, n, resolution_percentage, pc,
                 Ts, P_min, max_allowed_deltaP, phase_shift_min,
                 Lmin, phi, max_deltaP, resolution_limited, limiter, Lmax, min_deltaP,
                 Ltot_in, Ltot, prompted, resolution, P_max_inductanceChoice,
                 I_pri_RMS, I_sec_RMS, total_Pcond, nu, out, calls, ret>>

\* ploss_vs_resolution lines 105-134 and the caller's lines 329-331: the loop is
\* left, the figure is returned; after the call at P the call at P_min follows
ploss_vs_resolution_return ==
  /\ pc = "sweep_L"
  /\ ~FLe(sw.x, Lmax)
  /\ IF Len(calls) = 1
     THEN /\ calls' = Append(calls, <<"ploss_vs_resolution", P_min>>)
          /\ sw' = ResolutionSweep(P_min)
          /\ pc' = "sweep_L"
     ELSE /\ sw' = NoSweep
          /\ pc' = "select"
          /\ UNCHANGED calls
  /\ UNCHANGED <<P, V1, V2, fsw, f_clk, Llk, n, resolution_percentage,
                 Ts, P_min, max_allowed_deltaP, phase_shift_min,
                 Lmin, phi, max_deltaP, resolution_limited, limiter, Lmax, min_deltaP,
                 Ltot_in, Ltot, prompted, resolution, P_max_inductanceChoice,
                 I_pri_RMS, I_sec_RMS, total_Pcond, nu, out, ret>>

\* the sum of the bounds, not halved
range_sum(Lmin_, Lmax_) == FAdd(Lmin_, Lmax_)

\* (Lmin + Lmax) / 2
midpoint(Lmin_, Lmax_) == FDiv(FAdd(Lmin_, Lmax_), Two)

\* lines 336-347: the argument when it is passed; otherwise float(input()), and
\* the midpoint on ValueError, EOFError or KeyboardInterrupt
selected_Ltot(sel_, Lmin_, Lmax_) ==
  CASE sel_[1] = "arg" -> sel_[2]
    [] sel_[1] = "typed" -> sel_[2]
    [] sel_[1] = "invalid" -> midpoint(Lmin_, Lmax_)
    [] sel_[1] = "eof" -> midpoint(Lmin_, Lmax_)

\* input() is called exactly when the argument is None
input_called(sel_) == sel_[1] # "arg"

\* a check of the lower bound only
below_Lmin_only(Ltot_, Lmin_, Lmax_) == FLt(Ltot_, Lmin_)

\* if Ltot < Lmin or Ltot > Lmax
out_of_bounds(Ltot_, Lmin_, Lmax_) == FLt(Ltot_, Lmin_) \/ FLt(Lmax_, Ltot_)

\* lines 336-350: the Ltot argument is read here for the first time, so its
\* value is drawn here; None leads to the prompt
select_inductance ==
  /\ pc = "select"
  /\ Ltot_in' \in Selections
  /\ prompted' = input_called(Ltot_in')
  /\ Ltot' = selected_Ltot(Ltot_in', Lmin, Lmax)
  /\ out' = IF out_of_bounds(Ltot', Lmin, Lmax) THEN out \cup {"WARNING"} ELSE out
  /\ pc' = "design"
  /\ UNCHANGED <<P, V1, V2, fsw, f_clk, Llk, n, resolution_percentage,
                 Ts, P_min, max_allowed_deltaP, phase_shift_min,
                 Lmin, phi, max_deltaP, resolution_limited, limiter, Lmax, min_deltaP,
                 resolution, P_max_inductanceChoice,
                 I_pri_RMS, I_sec_RMS, total_Pcond, nu, calls, sw, ret>>

\* the frame of ploss_vs_P(P_min, P, Ltot, ...) at its first line
PowerSweep == [NoSweep EXCEPT !.fn = "ploss_vs_P", !.x = ToInt(P_min)]

\* lines 355-405: the operating point at full power, the losses, the efficiency;
\* when Lmax >= Lmin the ploss_vs_P call is entered
design_point ==
  /\ pc = "design"
  /\ phi' = solve_phi(P, fsw, Ltot, n, V1, V2)
  /\ resolution' = resolution_step(phi', phase_shift_min, Ltot, n, V1, V2, fsw)
  /\ P_max_inductanceChoice' = power_eq(phi_max, Ltot, n, V2, V1, fsw)
  /\ I_pri_RMS' = Irms_prim_phaseShift(phi', V1, V2, n, fsw, Ltot)
  /\ I_sec_RMS' = sec_RMS(I_pri_RMS', n)
  /\ total_Pcond' = Pcond_total(I_pri_RMS', I_sec_RMS')
  /\ nu' = FDiv(FSub(P, total_Pcond'), P)
  /\ IF power_sweep_guard(Lmin, Lmax)
     THEN /\ calls' = Append(calls, <<"ploss_vs_P", P_min>>)
          /\ sw' = PowerSweep
          /\ pc' = "sweep_P"
     ELSE /\ pc' = "return"
          /\ UNCHANGED <<calls, sw>>
  /\ UNCHANGED <<P, V1, V2, fsw, f_clk, Llk, n, resolution_percentage,
                 Ts, P_min, max_allowed_deltaP, phase_shift_min,
                 Lmin, max_deltaP, resolution_limited, limiter, Lmax, min_deltaP,
                 Ltot_in, Ltot, prompted, out, ret>>

\* ploss_vs_P lines 157-178: one iteration of for P in range(int(Pmin), int(Pmax) + 1)
ploss_vs_P_sample ==
  /\ pc = "sweep_P"
  /\ sw.x <= ToInt(P)
  /\ LET Pw == FromInt(sw.x)
         ph == solve_phi(Pw, fsw, Ltot, n, V1, V2)
         Ip == Irms_prim_phaseShift(ph, V1, V2, n, fsw, Ltot)
         Is == sec_RMS(Ip, n)
         Pc == Pcond_total(Ip, Is)
     IN sw' = [sw EXCEPT !.power = Pw, !.L = Ltot, !.phi = ph,
                         !.I_pri_RMS = Ip, !.I_sec_RMS = Is, !.Pcond = Pc,
                         !.eff = FSub(One, FDiv(Pc, Pw)),
                         !.count = sw.count + 1,
                         !.x = sw.x + 1]
  /\ UNCHANGED <<P, V1, V2, fsw, f_clk, Llk, n, resolution_percentage, pc,
                 Ts, P_min, max_allowed_deltaP, phase_shift_min,
                 Lmin, phi, max_deltaP, resolution_limited, limiter, Lmax, min_deltaP,
                 Ltot_in, Ltot, prompted, resolution, P_max_inductanceChoice,
                 I_pri_RMS, I_sec_RMS, total_Pcond, nu, out, calls, ret>>

\* ploss_vs_P lines 180-208 and the caller's line 405
ploss_vs_P_return ==
  /\ pc = "sweep_P"
  /\ ~(sw.x <= ToInt(P))
  /\ sw' = NoSweep
  /\ pc' = "return"
  /\ UNCHANGED <<P, V1, V2, fsw, f_clk, Llk, n, resolution_percentage,
                 Ts, P_min, max_allowed_deltaP, phase_shift_min,
                 Lmin, phi, max_deltaP, resolution_limited, limiter, Lmax, min_deltaP,
                 Ltot_in, Ltot, prompted, resolution, P_max_inductanceChoice,
                 I_pri_RMS, I_sec_RMS, total_Pcond, nu, out, calls, ret>>

\* lines 407-417
return_result ==
  /\ pc = "return"
  /\ ret' = [Lmin |-> Lmin, Lmax |-> Lmax, Ltot |-> Ltot, phi |-> phi,
             resolution |-> resolution, I_pri_RMS |-> I_pri_RMS,
             I_sec_RMS |-> I_sec_RMS, total_Pcond |-> total_Pcond, efficiency |-> nu]
  /\ pc' = "done"
  /\ UNCHANGED <<P, V1, V2, fsw, f_clk, Llk, n, resolution_percentage,
                 Ts, P_min, max_allowed_deltaP, phase_shift_min,
                 Lmin, phi, max_deltaP, resolution_limited, limiter, Lmax, min_deltaP,
                 Ltot_in, Ltot, prompted, resolution, P_max_inductanceChoice,
                 I_pri_RMS, I_sec_RMS, total_Pcond, nu, out, calls, sw>>

Next ==
  \/ apply_defaults
  \/ zvs_bound
  \/ search_iteration
  \/ upper_bound
  \/ ploss_vs_resolution_sample
  \/ ploss_vs_resolution_return
  \/ select_inductance
  \/ design_point
  \/ ploss_vs_P_sample
  \/ ploss_vs_P_return
  \/ return_result

Spec == Init /\ [][Next]_vars

SpecDefault == InitDefault /\ [][Next]_vars

\* Irms_prim_phaseShift on its own: the arguments of the calls that are explored
IrmsList ==
  << [V1 |-> Dec(22504, -1), V2 |-> FromInt(116), n |-> Dec(194, -1)],
     [V1 |-> FromInt(720), V2 |-> FromInt(40), n |-> FromInt(15)],
     [V1 |-> FromInt(36), V2 |-> FromInt(12), n |-> FromInt(3)],
     [V1 |-> FromInt(48), V2 |-> FromInt(12), n |-> FromInt(3)] >>

NIrms == 3
NPhi == 25

IrmsArgs == {IrmsList[i] : i \in 1..MinI(NIrms, Len(IrmsList))}
\* phase shifts in [0, 0.25]: 0, 1e-9 and 0.25*k/NPhi
PhiGrid ==
  {Zero, Dec(1, -9)} \cup {FDiv(FromInt(k), FromInt(4 * NPhi)) : k \in 1..NPhi}

InitIrms ==
  /\ \E a \in IrmsArgs : V1 = a.V1 /\ V2 = a.V2 /\ n = a.n
  /\ phi \in PhiGrid
  /\ fsw = Dec(1, 5) /\ Ltot = Dec(1, -4)
  /\ pc = "Irms_call"
  /\ P = None /\ f_clk = None /\ Llk = None /\ resolution_percentage = None
  /\ Ts = Unset /\ P_min = Unset /\ max_allowed_deltaP = Unset /\ phase_shift_min = Unset
  /\ Lmin = Unset /\ max_deltaP = Unset
  /\ resolution_limited = FALSE /\ limiter = "unset"
  /\ Lmax = Unset /\ min_deltaP = Unset
  /\ Ltot_in = Unset /\ prompted = FALSE
  /\ resolution = Unset /\ P_max_inductanceChoice = Unset
  /\ I_pri_RMS = Unset /\ I_sec_RMS = Unset /\ total_Pcond = Unset /\ nu = Unset
  /\ out = {} /\ calls = <<>> /\ sw = NoSweep /\ ret = Unset

\* lines 43-52: the body of Irms_prim_phaseShift(phi, V1, V2, n, fsw, L)
Irms_evaluate ==
  /\ pc = "Irms_call"
  /\ I_pri_RMS' = Irms_prim_phaseShift(phi, V1, V2, n, fsw, Ltot)
  /\ pc' = "Irms_return"
  /\ UNCHANGED <<P, V1, V2, fsw, f_clk, Llk, n, resolution_percentage,
                 Ts, P_min, max_allowed_deltaP, phase_shift_min,
                 Lmin, phi, max_deltaP, resolution_limited, limiter, Lmax, min_deltaP,
                 Ltot_in, Ltot, prompted, resolution, P_max_inductanceChoice,
                 I_sec_RMS, total_Pcond, nu, out, calls, sw, ret>>

NextIrms == Irms_evaluate

SpecIrms == InitIrms /\ [][NextIrms]_vars

\* the function runs on until it returns: it keeps taking steps while it is not
\* done (Next is enabled at every position but "done")
SpecFair == Init /\ [][Next]_vars /\ ([]<><<Next>>_vars \/ <>[](pc = "done"))

----------------------------------------------------------------------------
(* Properties *)

PreBound == {"start", "zvs", "search"}
PostSelect == {"design", "sweep_P", "return", "done"}
PostDesign == {"sweep_P", "return", "done"}

\* The operating points solved and still held in the current state, each with
\* the power and inductance it was solved for: the bound search's (P_min, Lmin),
\* the design point's (P, Ltot), the current sweep sample's.
SolvedNow ==
  (IF pc \in {"search", "sweep_L", "select", "design"}
   THEN {[site |-> "search", power |-> P_min, L |-> Lmin, phi |-> phi]} ELSE {})
  \cup (IF pc \in PostDesign
        THEN {[site |-> "design", power |-> P, L |-> Ltot, phi |-> phi]} ELSE {})
  \cup (IF sw.count > 0
        THEN {[site |-> sw.fn, power |-> sw.power, L |-> sw.L, phi |-> sw.phi]} ELSE {})

\* the discriminant 1 - 8*P*fsw*L/(n*V1*V2) of the quadratic solved at s
DiscAt(s) == Disc(FromInt(-2), One, QuadC(s.power, fsw, s.L, n, V1, V2))

\* |x - y| <= tol * |y|, and |x - y| <= tol
RelTol == Dec(1, -6)
AbsTol == Dec(1, -7)
CloseRel(x, y) == FLe(FAbs(FSub(x, y)), FMul(RelTol, FAbs(y)))
CloseAbs(x, y) == FLe(FAbs(FSub(x, y)), AbsTol)

\* C1: whenever the computed bounds satisfy Lmax < Lmin, the UserWarning has been
\* issued and neither ploss_vs_resolution nor ploss_vs_P has been invoked, at
\* every point of the run from the feasibility check to the return.
C1_InfeasibleReportedNoSweep ==
  (pc \notin PreBound /\ FLt(Lmax, Lmin))
    => ("UserWarning" \in out /\ calls = <<>> /\ sw = NoSweep)

C1_Witness ==
  pc = "done" /\ FLt(Lmax, Lmin) /\ "UserWarning" \in out /\ calls = <<>>

\* C2: a phase shift the computation holds (in the bound search, at the design
\* point, in a sweep sample) never comes from a quadratic with a negative
\* discriminant: such a solve would have ended in an error instead.
C2_NegativeDiscriminantIsError ==
  \A s \in SolvedNow : ~FLt(DiscAt(s), Zero)

\* C3: at every solve with a non-negative discriminant, substituting the solved
\* phi back into the power equation recovers the requested power within a
\* relative tolerance of 1e-6.
C3_RoundTrip ==
  \A s \in SolvedNow :
    (~FLt(DiscAt(s), Zero) /\ FLt(Zero, s.power))
      => CloseRel(power_eq(s.phi, s.L, n, V1, V2, fsw), s.power)

C3_Witness ==
  /\ pc = "done"
  /\ \E s \in SolvedNow : s.site = "design" /\ FLt(Zero, DiscAt(s)) /\ FLt(Zero, s.phi)

\* C4: at every solve with two real roots the selected phi is the smaller of the
\* two roots, lies in [0, 0.25] and equals (1 - sqrt(1 - 8*P*fsw*L/(n*V1*V2)))/4
\* within an absolute tolerance of 1e-7.
TwoRoots(s) == np_roots_real(FromInt(-2), One, QuadC(s.power, fsw, s.L, n, V1, V2))
C4_SmallerRoot ==
  \A s \in SolvedNow :
    FLt(Zero, DiscAt(s))
      => /\ FLe(s.phi, TwoRoots(s)[1]) /\ FLe(s.phi, TwoRoots(s)[2])
         /\ FLe(Zero, s.phi) /\ FLe(s.phi, phi_max)
         /\ CloseAbs(s.phi, FDiv(FSub(One, FSqrt(DiscAt(s))), Four))

C4_Witness ==
  \E s \in SolvedNow :
    /\ s.site = "ploss_vs_P" /\ FLt(Zero, DiscAt(s))
    /\ TwoRoots(s)[1] # TwoRoots(s)[2] /\ FLt(Zero, s.phi)

\* C5: the resolution step does not increase with the inductance: from one
\* iteration of the bound search to the next, and from one sample of
\* ploss_vs_resolution to the next, L grows and deltaP(L) does not.
C5_ResolutionMonotone ==
  [][ /\ (pc = "search" /\ pc' = "search")
         => (FLe(Lmin, Lmin') /\ FLe(max_deltaP', max_deltaP))
      /\ (pc = "sweep_L" /\ sw.count > 0 /\ sw'.count = sw.count + 1)
         => (FLe(sw.L, sw'.L) /\ FLe(sw'.resolution, sw.resolution)) ]_vars

C5_Witness ==
  /\ pc = "sweep_L" /\ sw.count >= 2 /\ resolution_limited
  /\ FLt(sw.resolution, max_deltaP)

\* C6 as stated: substituting phi = 0.25 and L = Lmax into the power equation
\* yields exactly P.
C6_ExactlyRated ==
  pc \notin PreBound => power_eq(phi_max, Lmax, n, V1, V2, fsw) = P

\* C6: Lmax is n*V1*V2*0.25*(1 - 2*0.25)/(P*fsw), and substituting phi = 0.25 and
\* L = Lmax into the power equation yields P within a relative tolerance of 1e-6
\* (each operation rounds, so not always exactly P).
C6_ClosedForm ==
  pc \notin PreBound
    => /\ Lmax = FDiv(FMul(FMul(FMul(FMul(n, V1), V2), Dec(25, -2)),
                           FSub(One, FMul(Two, Dec(25, -2)))),
                      FMul(P, fsw))
       /\ CloseRel(power_eq(phi_max, Lmax, n, V1, V2, fsw), P)

C6_Witness ==
  /\ pc = "done"
  /\ power_eq(phi_max, Lmax, n, V1, V2, fsw) # P
  /\ CloseRel(power_eq(phi_max, Lmax, n, V1, V2, fsw), P)

\* C7: in the default scenario (V1 = 720, V2 = 40, n = 15, fsw = 100 kHz,
\* P = 1000 W, Llk = 10 uH, f_clk = 250 MHz, resolution_percentage = 0.025) the
\* bound search ends with 0 < Lmin < Lmax, both numbers, no UserWarning is
\* issued and the sweeps of the feasible branch are entered.
C7_DefaultFeasible ==
  /\ pc # "start"
       => /\ V1 = FromInt(720) /\ V2 = FromInt(40) /\ n = FromInt(15)
          /\ fsw = Dec(1, 5) /\ P = FromInt(1000) /\ Llk = Dec(1, -5)
          /\ f_clk = Dec(25, 7) /\ resolution_percentage = Dec(25, -3)
  /\ pc \notin PreBound
       => /\ FLt(Zero, Lmin) /\ FLt(Lmin, Lmax)
          /\ ~IsNaN(Lmin) /\ ~IsNaN(Lmax)
          /\ "UserWarning" \notin out
          /\ Len(calls) >= 1 /\ calls[1] = <<"ploss_vs_resolution", P>>

C7_Witness ==
  pc = "select" /\ resolution_limited /\ FLt(Lmin, Lmax) /\ Len(calls) = 2

\* C8: wherever an operating point is evaluated (the design point, every sample
\* of ploss_vs_resolution and of ploss_vs_P) the secondary RMS current is n
\* times the primary RMS current computed for the same phi; so is the returned
\* I_sec_RMS.
C8_SecondaryCurrent ==
  /\ pc \in PostDesign
       => /\ I_pri_RMS = Irms_prim_phaseShift(phi, V1, V2, n, fsw, Ltot)
          /\ I_sec_RMS = FMul(I_pri_RMS, n)
  /\ sw.count > 0
       => /\ sw.I_pri_RMS = Irms_prim_phaseShift(sw.phi, V1, V2, n, fsw, sw.L)
          /\ sw.I_sec_RMS = FMul(sw.I_pri_RMS, n)
  /\ pc = "done" => ret.I_sec_RMS = FMul(ret.I_pri_RMS, n)

C8_Witness ==
  /\ pc = "done" /\ Len(calls) = 3
  /\ FLt(Zero, ret.I_pri_RMS) /\ FLt(ret.I_pri_RMS, ret.I_sec_RMS)

\* C9: a Ltot that is passed or typed is used unchanged; the WARNING line is
\* printed exactly when it is below Lmin or above Lmax; either way the run goes
\* on and the returned result holds that Ltot and the design computed from it.
C9_OutOfBoundsWarningOnly ==
  (pc \in PostSelect /\ Ltot_in[1] \in {"arg", "typed"})
    => /\ Ltot = Ltot_in[2]
       /\ ("WARNING" \in out) <=> (FLt(Ltot_in[2], Lmin) \/ FLt(Lmax, Ltot_in[2]))
       /\ pc = "done"
            => /\ ret.Ltot = Ltot_in[2]
               /\ ret.phi = solve_phi(P, fsw, Ltot_in[2], n, V1, V2)
               /\ ret.resolution =
                    resolution_step(ret.phi, phase_shift_min, Ltot_in[2], n, V1, V2, fsw)
               /\ ret.I_pri_RMS =
                    Irms_prim_phaseShift(ret.phi, V1, V2, n, fsw, Ltot_in[2])
               /\ ret.total_Pcond = Pcond_total(ret.I_pri_RMS, ret.I_sec_RMS)
               /\ ret.efficiency = FDiv(FSub(P, ret.total_Pcond), P)

C9_Witness ==
  /\ pc = "done" /\ Ltot_in[1] = "typed" /\ FLt(Lmin, Lmax) /\ FLt(Lmax, Ltot_in[2])
  /\ "WARNING" \in out /\ ret.Ltot = Ltot_in[2]

\* C10: without a Ltot argument, when input() raises EOFError/KeyboardInterrupt
\* or returns a line float() rejects, the selected inductance is
\* (Lmin + Lmax)/2; with a Ltot argument input() is not called and the selected
\* inductance is the argument.
C10_MidpointFallback ==
  pc \in PostSelect
    => /\ Ltot_in[1] \in {"eof", "invalid"}
            => (prompted /\ Ltot = FDiv(FAdd(Lmin, Lmax), Two))
       /\ Ltot_in[1] = "arg" => (~prompted /\ Ltot = Ltot_in[2])
       /\ pc = "done" => ret.Ltot = Ltot

C10_Witness ==
  /\ pc = "done" /\ Ltot_in[1] = "eof" /\ FLt(Lmin, Ltot) /\ FLt(Ltot, Lmax)

\* C11: when the run returns, the limiting constraint recorded by the bound
\* search has reached the caller: it is an entry of the returned dictionary, or
\* (infeasible outcome) it is part of the UserWarning that was issued.
C11_LimiterSurfaced ==
  pc = "done"
    => \/ ("limiter" \in DOMAIN ret /\ ret.limiter = limiter)
       \/ "UserWarning" \in out

\* C15: wherever a resolution step has been evaluated (the bound search, the
\* design point, a sample of ploss_vs_resolution) the phase shift it was
\* evaluated at is at least phase_shift_min, so that phi - phase_shift_min >= 0.
C15_NoNegativePhaseArgument ==
  \A s \in SolvedNow :
    s.site # "ploss_vs_P" => FLe(phase_shift_min, s.phi)

\* C12: the bound search starts from the ZVS estimate at P_min = 0.5*P; an
\* iteration is taken only while the resolution step at P_min of the current
\* candidate exceeds resolution_percentage*P, and multiplies the candidate by
\* 1.0001; the loop is left at the first candidate whose step is within the
\* threshold, so the final Lmin is at least the ZVS estimate, and differs from
\* it exactly when an iteration was taken.
C12_SearchPostcondition ==
  [][ /\ (pc = "zvs" /\ pc' = "search")
         => /\ P_min = FMul(Dec(5, -1), P)
            /\ Lmin' = Lmin_ZVS(P_min, V1, V2, n, Ts)
            /\ ~resolution_limited'
      /\ (pc = "search" /\ pc' = "search")
         => /\ FLt(max_allowed_deltaP, max_deltaP)
            /\ Lmin' = FMul(Lmin, Dec(10001, -4))
            /\ resolution_limited'
      /\ pc' = "search"
         => max_deltaP' = resolution_step(solve_phi(P_min, fsw, Lmin', n, V1, V2),
                                          phase_shift_min', Lmin', n, V1, V2, fsw)
      /\ (pc = "search" /\ pc' # "search")
         => /\ Lmin' = Lmin
            /\ max_allowed_deltaP = FMul(resolution_percentage, P)
            /\ FLe(max_deltaP, max_allowed_deltaP)
            /\ FLe(Lmin_ZVS(P_min, V1, V2, n, Ts), Lmin)
            /\ resolution_limited <=> (Lmin # Lmin_ZVS(P_min, V1, V2, n, Ts)) ]_vars

C12_Witness ==
  /\ pc \notin PreBound /\ resolution_limited
  /\ FLt(Lmin_ZVS(P_min, V1, V2, n, Ts), Lmin)
  /\ FLe(max_deltaP, max_allowed_deltaP)

\* C13: the bound search terminates: from every point of the loop the run
\* reaches the code after it, with a resolution step within the threshold, also
\* when the candidates have grown past the inductance at which the quadratic at
\* P_min loses its real roots.
C13_SearchTerminates ==
  (pc = "search") ~> (pc \notin PreBound /\ FLe(max_deltaP, max_allowed_deltaP))

C13_Witness ==
  /\ pc \notin PreBound /\ resolution_limited
  /\ FLt(DiscAt([power |-> P_min, L |-> Lmin]), Zero)
  /\ FLe(max_deltaP, max_allowed_deltaP)

\* C14: in a call of Irms_prim_phaseShift with phi in [0, 0.25] and positive V1,
\* V2, n the quantity under the square root is not negative, and the returned
\* current is a number.
C14_RadicandNonNegative ==
  (pc \in {"Irms_call", "Irms_return"} /\ FLe(Zero, phi) /\ FLe(phi, phi_max)
     /\ FLt(Zero, V1) /\ FLt(Zero, V2) /\ FLt(Zero, n))
    => /\ ~FLt(Irms_radicand(phi, V1, V2, n), Zero)
       /\ pc = "Irms_return" => ~IsNaN(I_pri_RMS)

====
